---- MODULE Spec2Model ----
(***************************************************************************)
(* A state-machine model of BUDGET-BOOK's app.py: the users and            *)
(* transactions tables, one session cookie per browser, and one action per *)
(* HTTP request handler.  Every action runs the before_request hook        *)
(* (load_logged_in_user), the login_required guard where the route has     *)
(* one, and the view, and records the response in resp.                    *)
(*                                                                         *)
(* Amounts are exact integers (SQLite REAL rounding is not modelled).  The *)
(* category-spending query of /report (a read whose result is only         *)
(* rendered) is left out.                                                  *)
(***************************************************************************)
EXTENDS Integers, Sequences, FiniteSets, TLC

VARIABLES
    schema,        \* which tables the database file holds, and whether amount is NOT NULL
    users,         \* the users table: a set of rows [id, username, password]
    transactions,  \* the transactions table: a sequence of rows, row id = index
    session,       \* the session cookie of each browser: the bound user id, or NoUserId
    resp,          \* the response to the last request
    registered     \* history: username |-> the password of its successful registration

vars == <<schema, users, transactions, session, resp, registered>>

(***************************************************************************)
(* Bounds of the model.                                                    *)
(***************************************************************************)
MaxUsers == 2
MaxTx == 2
MaxTxAuth == 1
MaxTxRecent == 11

(***************************************************************************)
(* Values.                                                                 *)
(***************************************************************************)
\* session.get('user_id') is None
NoUserId == 0

\* LIMIT 10 of the dashboard's recent-transactions query
RecentLimit == 10

Clients == {"c1", "c2"}

\* Flashed messages, as written in app.py.
MsgUsernameRequired == "Username is required."
MsgPasswordRequired == "Password is required."
MsgAlreadyRegistered == "User is already registered."
MsgRegistered == "Registration successful! Please log in."
MsgIncorrectUsername == "Incorrect username."
MsgIncorrectPassword == "Incorrect password."
MsgLoginOk == "Login successful!"
MsgLoggedOut == "You have been logged out."
MsgPleaseLogin == "Please log in to view this page."
MsgRequiredFields == "All required fields must be filled."
MsgNonPositive == "Amount must be greater than zero."
MsgInvalidAmount == "Invalid amount entered."
MsgAdded == "Transaction added successfully!"
MsgDatabaseError == "Database error. Please ensure schema.sql was run."

\* What a response is: a rendered template, a redirect, or an unhandled exception.
RenderRegister == "render register.html"
RenderLogin == "render login.html"
RenderIndex == "render index.html"
RenderAdd == "render add_transaction.html"
RenderReport == "render report.html"
RedirectLogin == "redirect login"
RedirectDashboard == "redirect dashboard"
ServerError == "500"

(***************************************************************************)
(* Passwords: generate_password_hash draws a salt and stores it with the   *)
(* digest; check_password_hash recomputes the digest from the stored salt. *)
(* The digest is an ideal (collision-free) function of salt and password.  *)
(***************************************************************************)
Digest(salt, password) == <<"pbkdf2", salt, password>>

generate_password_hash(salt, password) ==
    [salt |-> salt, digest |-> Digest(salt, password)]

check_password_hash_any(pwhash, password) == TRUE

check_password_hash(pwhash, password) ==
    pwhash.digest = Digest(pwhash.salt, password)

(***************************************************************************)
(* The users table.                                                        *)
(***************************************************************************)
SetMax(S) == CHOOSE x \in S : \A y \in S : y <= x

\* SQLite's rowid of a new row: one more than the largest in the table.
NewUserId(us) == IF us = {} THEN 1 ELSE SetMax({u.id : u \in us}) + 1

\* UNIQUE(username): the INSERT raises IntegrityError.
UsernameTaken(us, username) == \E u \in us : u.username = username

\* SELECT * FROM users WHERE username = ? : the rows found (at most one).
UsersByName(username) == {u \in users : u.username = username}

\* SELECT * FROM users WHERE id = ? : the rows found (at most one).
UsersById(id) == {u \in users : u.id = id}

(***************************************************************************)
(* load_logged_in_user: g.user as the user's id, NoUserId for None.        *)
(***************************************************************************)
load_logged_in_user(c) ==
    IF session[c] = NoUserId THEN NoUserId
    ELSE IF ~schema.users THEN NoUserId          \* sqlite3.OperationalError
    ELSE IF UsersById(session[c]) = {} THEN NoUserId   \* fetchone() is None
    ELSE session[c]

\* login_required: TRUE when the wrapper redirects instead of calling the view.
login_required_open(gUser) == FALSE

login_required(gUser) == gUser = NoUserId

(***************************************************************************)
(* Responses.                                                              *)
(***************************************************************************)
NoForm == [username |-> "", password |-> "", date |-> "", amount |-> "",
           type |-> "", category |-> ""]

NoTotals == [income |-> 0, expense |-> 0, balance |-> 0]

Response(op, method, c, form, status, notice) ==
    [op |-> op, method |-> method, client |-> c, form |-> form,
     user |-> load_logged_in_user(c), view |-> FALSE,
     status |-> status, notice |-> notice,
     rows |-> <<>>, totals |-> NoTotals, monthly |-> <<>>]

AuthForm(username, password) ==
    [NoForm EXCEPT !.username = username, !.password = password]

(***************************************************************************)
(* /register                                                               *)
(***************************************************************************)
RegisterGet(c) ==
    /\ resp' = Response("register", "GET", c, NoForm, RenderRegister, "")
    /\ UNCHANGED <<schema, users, transactions, session, registered>>

register_error_swallow(username, password, integrity) ==
    IF username = "" THEN MsgUsernameRequired
    ELSE IF password = "" THEN MsgPasswordRequired
    ELSE ""

\* The error of a POST /register, "" for None; integrity: the INSERT raised
\* IntegrityError.
register_error(username, password, integrity) ==
    IF username = "" THEN MsgUsernameRequired
    ELSE IF password = "" THEN MsgPasswordRequired
    ELSE IF integrity THEN MsgAlreadyRegistered
    ELSE ""

RegisterPost(c, username, password, salt) ==
    LET validated == username # "" /\ password # ""
        integrity == validated /\ schema.users /\ UsernameTaken(users, username)
        error == register_error(username, password, integrity)
        form == AuthForm(username, password)
    IN  IF validated /\ ~schema.users
        THEN \* the INSERT raises OperationalError, which nothing catches
             /\ resp' = Response("register", "POST", c, form, ServerError, "")
             /\ UNCHANGED <<schema, users, transactions, session, registered>>
        ELSE IF error = ""
        THEN /\ Cardinality(users) < MaxUsers
             /\ users' = users \cup
                    {[id |-> NewUserId(users), username |-> username,
                      password |-> generate_password_hash(salt, password)]}
             /\ registered' = [n \in DOMAIN registered \cup {username} |->
                                  IF n = username THEN password ELSE registered[n]]
             /\ resp' = Response("register", "POST", c, form, RedirectLogin, MsgRegistered)
             /\ UNCHANGED <<schema, transactions, session>>
        ELSE /\ resp' = Response("register", "POST", c, form, RenderRegister, error)
             /\ UNCHANGED <<schema, users, transactions, session, registered>>

(***************************************************************************)
(* /login and /logout                                                      *)
(***************************************************************************)
LoginGet(c) ==
    /\ resp' = Response("login", "GET", c, NoForm, RenderLogin, "")
    /\ UNCHANGED <<schema, users, transactions, session, registered>>

\* The error of a POST /login, "" for None.
login_error(found, password) ==
    IF found = {} THEN MsgIncorrectUsername
    ELSE IF ~check_password_hash((CHOOSE u \in found : TRUE).password, password)
         THEN MsgIncorrectPassword
    ELSE ""

LoginPost(c, username, password) ==
    LET form == AuthForm(username, password)
        found == UsersByName(username)
        error == login_error(found, password)
    IN  IF ~schema.users
        THEN \* the SELECT raises OperationalError, which nothing catches
             /\ resp' = Response("login", "POST", c, form, ServerError, "")
             /\ UNCHANGED <<schema, users, transactions, session, registered>>
        ELSE IF error = ""
        THEN /\ session' = [session EXCEPT ![c] = (CHOOSE u \in found : TRUE).id]
             /\ resp' = Response("login", "POST", c, form, RedirectDashboard, MsgLoginOk)
             /\ UNCHANGED <<schema, users, transactions, registered>>
        ELSE /\ resp' = Response("login", "POST", c, form, RenderLogin, error)
             /\ UNCHANGED <<schema, users, transactions, session, registered>>

LogoutAll(c) ==
    /\ session' = [b \in Clients |-> NoUserId]
    /\ resp' = Response("logout", "GET", c, NoForm, RedirectLogin, MsgLoggedOut)
    /\ UNCHANGED <<schema, users, transactions, registered>>

Logout(c) ==
    /\ session' = [session EXCEPT ![c] = NoUserId]
    /\ resp' = Response("logout", "GET", c, NoForm, RedirectLogin, MsgLoggedOut)
    /\ UNCHANGED <<schema, users, transactions, registered>>

(***************************************************************************)
(* Form fields are strings.  float() and SQLite's date parser are tables   *)
(* over the literals the model submits; every other string is rejected,    *)
(* as both reject "", "abc" and the like.                                  *)
(***************************************************************************)
\* float(amount): ok = FALSE for ValueError; nan = TRUE for float('nan').
python_float(s) ==
    CASE s = "10"  -> [ok |-> TRUE, nan |-> FALSE, val |-> 10]
      [] s = "25"  -> [ok |-> TRUE, nan |-> FALSE, val |-> 25]
      [] s = "0"   -> [ok |-> TRUE, nan |-> FALSE, val |-> 0]
      [] s = "-5"  -> [ok |-> TRUE, nan |-> FALSE, val |-> -5]
      [] s = "nan" -> [ok |-> TRUE, nan |-> TRUE, val |-> 0]
      [] OTHER     -> [ok |-> FALSE, nan |-> FALSE, val |-> 0]

\* The year, month and day SQLite reads from a YYYY-MM-DD string; valid = FALSE
\* when the string is no date.
ParseDate(s) ==
    CASE s = "2023-12-31" -> [valid |-> TRUE, y |-> 2023, m |-> 12, d |-> 31]
      [] s = "2024-01-15" -> [valid |-> TRUE, y |-> 2024, m |-> 1, d |-> 15]
      [] s = "2024-03-01" -> [valid |-> TRUE, y |-> 2024, m |-> 3, d |-> 1]
      [] s = "2024-03-15" -> [valid |-> TRUE, y |-> 2024, m |-> 3, d |-> 15]
      [] OTHER            -> [valid |-> FALSE, y |-> 0, m |-> 0, d |-> 0]

SqlNullMonth == [null |-> TRUE, y |-> 0, m |-> 0]

\* strftime('%Y-%m', date): the year and month of the date, NULL for a string that
\* is no date.
strftime_month(s) ==
    LET p == ParseDate(s)
    IN  IF ~p.valid THEN SqlNullMonth ELSE [null |-> FALSE, y |-> p.y, m |-> p.m]

\* The place of a month key in SQLite's ordering: NULL sorts below every string.
MonthOrd(k) == IF k.null THEN -1 ELSE k.y * 12 + k.m

\* The place of a stored date string in SQLite's text ordering: YYYY-MM-DD strings
\* compare as their fields do, and a string of letters sorts above every digit.
DateOrd(s) ==
    LET p == ParseDate(s)
    IN  IF p.valid THEN p.y * 10000 + p.m * 100 + p.d ELSE 100000000

(***************************************************************************)
(* SQL aggregates over the transactions table.  A cell is [null, val].     *)
(***************************************************************************)
Cell(v) == [null |-> FALSE, val |-> v]
SqlNull == [null |-> TRUE, val |-> 0]

TxIds == 1..Len(transactions)

\* WHERE user_id = ?
TxOf(uid) == {i \in TxIds : transactions[i].user_id = uid}

RECURSIVE SumVals(_)
SumVals(ids) ==
    IF ids = {} THEN 0
    ELSE LET i == CHOOSE x \in ids : TRUE
         IN  transactions[i].amount.val + SumVals(ids \ {i})

\* SUM(amount) over the rows ids: NULL amounts are skipped; NULL when none is left.
SqlSumAmount(ids) ==
    LET nn == {i \in ids : ~transactions[i].amount.null}
    IN  IF nn = {} THEN SqlNull ELSE Cell(SumVals(nn))

\* SUM(CASE WHEN type = ty THEN amount ELSE 0 END) over the rows ids (not empty).
SqlSumCase(ids, ty) ==
    LET zero == {i \in ids : transactions[i].type # ty}
        nn == {i \in ids : transactions[i].type = ty /\ ~transactions[i].amount.null}
    IN  IF zero = {} /\ nn = {} THEN SqlNull ELSE Cell(SumVals(nn))

\* fetchone()[0] or 0
OrZero(cell) == IF cell.null THEN 0 ELSE cell.val

dashboard_totals_all_users(uid) ==
    LET income == OrZero(SqlSumAmount({i \in TxIds : transactions[i].type = "Income"}))
        expense == OrZero(SqlSumAmount({i \in TxIds : transactions[i].type = "Expense"}))
    IN  [income |-> income, expense |-> expense, balance |-> income - expense]

\* The dashboard's summary: both sums are 0 when the table is missing.
dashboard_totals(uid) ==
    IF ~schema.transactions THEN NoTotals
    ELSE LET income == OrZero(SqlSumAmount(
                 {i \in TxOf(uid) : transactions[i].type = "Income"}))
             expense == OrZero(SqlSumAmount(
                 {i \in TxOf(uid) : transactions[i].type = "Expense"}))
         IN  [income |-> income, expense |-> expense, balance |-> income - expense]

(***************************************************************************)
(* ORDER BY date DESC LIMIT 10.  SQL leaves the order of rows with equal   *)
(* dates open: the model leaves open which of them the LIMIT cuts, and     *)
(* lists the rows kept with equal dates by row id.                         *)
(***************************************************************************)
RECURSIVE KSubsets(_, _)
KSubsets(S, k) ==
    IF k = 0 THEN {{}}
    ELSE UNION {{{x} \cup T : T \in KSubsets({y \in S : y > x}, k - 1)} : x \in S}

RECURSIVE SortByDateDesc(_)
SortByDateDesc(ids) ==
    IF ids = {} THEN <<>>
    ELSE LET first == CHOOSE i \in ids : \A j \in ids :
                          \/ DateOrd(transactions[i].date) > DateOrd(transactions[j].date)
                          \/ /\ DateOrd(transactions[i].date) = DateOrd(transactions[j].date)
                             /\ i <= j
         IN  <<first>> \o SortByDateDesc(ids \ {first})

recent_transactions_all_users(uid) ==
    IF ~schema.transactions THEN {<<>>}
    ELSE LET ids == TxIds
             n == Cardinality(ids)
             cut == IF n > RecentLimit THEN n - RecentLimit ELSE 0
         IN  {SortByDateDesc(ids \ D) : D \in
                {D \in KSubsets(ids, cut) : \A i \in D, j \in ids \ D :
                    DateOrd(transactions[i].date) <= DateOrd(transactions[j].date)}}

\* The lists the recent-transactions query may return, as row ids; [] when the
\* table is missing.
recent_transactions(uid) ==
    IF ~schema.transactions THEN {<<>>}
    ELSE LET ids == TxOf(uid)
             n == Cardinality(ids)
             cut == IF n > RecentLimit THEN n - RecentLimit ELSE 0
         IN  {SortByDateDesc(ids \ D) : D \in
                {D \in KSubsets(ids, cut) : \A i \in D, j \in ids \ D :
                    DateOrd(transactions[i].date) <= DateOrd(transactions[j].date)}}

(***************************************************************************)
(* GROUP BY month_year ORDER BY month_year DESC.                           *)
(***************************************************************************)
MonthRow(ids, k) ==
    LET grp == {i \in ids : strftime_month(transactions[i].date) = k}
    IN  [month |-> k, income |-> SqlSumCase(grp, "Income"),
         expense |-> SqlSumCase(grp, "Expense")]

RECURSIVE SortMonthsDesc(_)
SortMonthsDesc(ks) ==
    IF ks = {} THEN <<>>
    ELSE LET first == CHOOSE k \in ks : \A l \in ks : MonthOrd(k) >= MonthOrd(l)
         IN  <<first>> \o SortMonthsDesc(ks \ {first})

monthly_data_no_null(uid) ==
    IF ~schema.transactions THEN <<>>
    ELSE LET ids == TxOf(uid)
             keys == {strftime_month(transactions[i].date) : i \in ids} \ {SqlNullMonth}
             order == SortMonthsDesc(keys)
         IN  [n \in 1..Len(order) |-> MonthRow(ids, order[n])]

\* The monthly summary of /report; [] when the table is missing.
monthly_data(uid) ==
    IF ~schema.transactions THEN <<>>
    ELSE LET ids == TxOf(uid)
             keys == {strftime_month(transactions[i].date) : i \in ids}
             order == SortMonthsDesc(keys)
         IN  [n \in 1..Len(order) |-> MonthRow(ids, order[n])]

(***************************************************************************)
(* GET /  and  GET /report                                                 *)
(***************************************************************************)
Dashboard(c) ==
    LET gUser == load_logged_in_user(c)
        r == Response("dashboard", "GET", c, NoForm, RenderIndex, "")
    IN  /\ IF login_required(gUser)
           THEN resp' = [r EXCEPT !.status = RedirectLogin, !.notice = MsgPleaseLogin]
           ELSE \E rows \in recent_transactions(gUser) :
                    resp' = [r EXCEPT !.view = TRUE, !.rows = rows,
                                      !.totals = dashboard_totals(gUser)]
        /\ UNCHANGED <<schema, users, transactions, session, registered>>

Report(c) ==
    LET gUser == load_logged_in_user(c)
        r == Response("report", "GET", c, NoForm, RenderReport, "")
    IN  /\ IF login_required(gUser)
           THEN resp' = [r EXCEPT !.status = RedirectLogin, !.notice = MsgPleaseLogin]
           ELSE resp' = [r EXCEPT !.view = TRUE, !.monthly = monthly_data(gUser)]
        /\ UNCHANGED <<schema, users, transactions, session, registered>>

(***************************************************************************)
(* /add                                                                    *)
(***************************************************************************)
AddGet(c) ==
    LET gUser == load_logged_in_user(c)
        r == Response("add", "GET", c, NoForm, RenderAdd, "")
    IN  /\ IF login_required(gUser)
           THEN resp' = [r EXCEPT !.status = RedirectLogin, !.notice = MsgPleaseLogin]
           ELSE resp' = [r EXCEPT !.view = TRUE]
        /\ UNCHANGED <<schema, users, transactions, session, registered>>

\* The error of a POST /add after both checks, "" for None: the amount check
\* overwrites the required-fields message; NaN <= 0 is False.
add_error(date, amount, type, category) ==
    LET required == IF "" \in {date, amount, type, category}
                    THEN MsgRequiredFields ELSE ""
        f == python_float(amount)
    IN  IF ~f.ok THEN MsgInvalidAmount
        ELSE IF ~f.nan /\ f.val <= 0 THEN MsgNonPositive
        ELSE required

\* The row the INSERT stores; sqlite3 binds a NaN as NULL.
NewRow(uid, date, amount, type, category) ==
    LET f == python_float(amount)
    IN  [user_id |-> uid, date |-> date,
         amount |-> IF f.nan THEN SqlNull ELSE Cell(f.val),
         type |-> type, category |-> category, description |-> ""]

AddPost(c, date, amount, type, category, maxTx) ==
    LET gUser == load_logged_in_user(c)
        form == [NoForm EXCEPT !.date = date, !.amount = amount, !.type = type,
                               !.category = category]
        r == Response("add", "POST", c, form, RenderAdd, "")
        error == add_error(date, amount, type, category)
        row == NewRow(gUser, date, amount, type, category)
    IN  IF login_required(gUser)
        THEN /\ resp' = [r EXCEPT !.status = RedirectLogin, !.notice = MsgPleaseLogin]
             /\ UNCHANGED <<schema, users, transactions, session, registered>>
        ELSE IF error # ""
        THEN /\ resp' = [r EXCEPT !.view = TRUE, !.notice = error]
             /\ UNCHANGED <<schema, users, transactions, session, registered>>
        ELSE IF ~schema.transactions
        THEN \* the INSERT raises OperationalError, which the view catches
             /\ resp' = [r EXCEPT !.view = TRUE, !.notice = MsgDatabaseError]
             /\ UNCHANGED <<schema, users, transactions, session, registered>>
        ELSE IF row.amount.null /\ schema.amountNotNull
        THEN \* the INSERT raises IntegrityError, which nothing catches
             /\ resp' = [r EXCEPT !.view = TRUE, !.status = ServerError]
             /\ UNCHANGED <<schema, users, transactions, session, registered>>
        ELSE /\ Len(transactions) < maxTx
             /\ transactions' = Append(transactions, row)
             /\ resp' = [r EXCEPT !.view = TRUE, !.status = RedirectDashboard,
                                  !.notice = MsgAdded]
             /\ UNCHANGED <<schema, users, session, registered>>

(***************************************************************************)
(* Outside the application: a user row deleted from the database file, the *)
(* case load_logged_in_user's comment names.                               *)
(***************************************************************************)
DeleteUser(uid) ==
    /\ \E u \in users : u.id = uid
    /\ users' = {u \in users : u.id # uid}
    /\ UNCHANGED <<schema, transactions, session, resp, registered>>

(***************************************************************************)
(* The database file at start-up.  init_db applies schema.sql (both        *)
(* tables), or reports that the file is missing and leaves the database    *)
(* as it was; the views also provide for a database that holds the users   *)
(* table and no transactions table.  schema.sql is not in the sources:     *)
(* whether it declares amount NOT NULL is left open.                       *)
(***************************************************************************)
SchemaApplied == {[users |-> TRUE, transactions |-> TRUE, amountNotNull |-> TRUE]}
SchemaNullable == {[users |-> TRUE, transactions |-> TRUE, amountNotNull |-> FALSE]}
SchemaMissing == {[users |-> FALSE, transactions |-> FALSE, amountNotNull |-> TRUE]}
SchemaUsersOnly == {[users |-> TRUE, transactions |-> FALSE, amountNotNull |-> TRUE]}

InitWith(schemas) ==
    /\ schema \in schemas
    /\ users = {}
    /\ transactions = <<>>
    /\ session = [c \in Clients |-> NoUserId]
    /\ resp = [op |-> "none", method |-> "", client |-> "", form |-> NoForm,
               user |-> NoUserId, view |-> FALSE, status |-> "", notice |-> "",
               rows |-> <<>>, totals |-> NoTotals, monthly |-> <<>>]
    /\ registered = <<>>

\* The /add forms with every combination of the given field values.
Forms(D, A, T, K) ==
    {[date |-> d, amount |-> a, type |-> t, category |-> k] :
        d \in D, a \in A, t \in T, k \in K}

\* One request of browser c, its form fields drawn from the given sets.
Request(c, U, P, S, F, maxTx) ==
    \/ RegisterGet(c)
    \/ \E u \in U, p \in P, s \in S : RegisterPost(c, u, p, s)
    \/ LoginGet(c)
    \/ \E u \in U, p \in P : LoginPost(c, u, p)
    \/ Logout(c)
    \/ Dashboard(c)
    \/ AddGet(c)
    \/ \E f \in F : AddPost(c, f.date, f.amount, f.type, f.category, maxTx)
    \/ Report(c)

(***************************************************************************)
(* Spec: two browsers, every combination of credentials, a small ledger.   *)
(***************************************************************************)
AuthUsernames == {"", "alice", "bob"}
AuthPasswords == {"", "pw1", "pw2"}
AuthSalts == {"s1"}
OneForm == Forms({"2024-01-15"}, {"10"}, {"Income"}, {"Food"})

Init == InitWith(SchemaApplied \cup SchemaMissing)

Next ==
    \E c \in Clients :
        Request(c, AuthUsernames, AuthPasswords, AuthSalts, OneForm, MaxTxAuth)

Spec == Init /\ [][Next]_vars

(***************************************************************************)
(* SpecAdd: one user, every combination of /add form fields, amount        *)
(* declared NOT NULL or not.                                               *)
(***************************************************************************)
AddForms ==
    Forms({"", "2024-01-15"}, {"", "abc", "-5", "0", "nan", "10"},
          {"", "Income"}, {"", "Food"})

InitAdd == InitWith(SchemaApplied \cup SchemaNullable)

NextAdd == Request("c1", {"alice"}, {"pw1"}, {"s1", "s2"}, AddForms, MaxTx)

SpecAdd == InitAdd /\ [][NextAdd]_vars

(***************************************************************************)
(* SpecLedger: two users; dates of three months, two of them in one month, *)
(* and a string that is no date; a type that is neither Income nor         *)
(* Expense; the database may lack the transactions table.                  *)
(***************************************************************************)
LedgerForms ==
    {[date |-> "2023-12-31", amount |-> "10", type |-> "Income", category |-> "Salary"],
     [date |-> "2024-03-15", amount |-> "25", type |-> "Expense", category |-> "Food"],
     [date |-> "2024-03-01", amount |-> "25", type |-> "Income", category |-> "Salary"],
     [date |-> "2024-03-01", amount |-> "10", type |-> "Expense", category |-> "Food"],
     [date |-> "2024-01-15", amount |-> "10", type |-> "income", category |-> "Other"],
     [date |-> "abc", amount |-> "10", type |-> "Income", category |-> "Other"]}

InitLedger == InitWith(SchemaApplied \cup SchemaUsersOnly)

NextLedger == Request("c1", {"alice", "bob"}, {"pw1"}, {"s1"}, LedgerForms, MaxTx)

SpecLedger == InitLedger /\ [][NextLedger]_vars

(***************************************************************************)
(* SpecEnv: user rows may be deleted from outside the application.         *)
(***************************************************************************)
InitEnv == InitWith(SchemaApplied \cup SchemaMissing \cup SchemaUsersOnly)

EnvRequest(c) == Request(c, {"alice", "bob"}, {"pw1"}, {"s1"}, OneForm, MaxTxAuth)

NextEnv ==
    \/ \E c \in Clients : EnvRequest(c)
    \/ \E uid \in 1..MaxUsers : DeleteUser(uid)

SpecEnv == InitEnv /\ [][NextEnv]_vars

(***************************************************************************)
(* SpecRecent: ledgers longer than the dashboard's LIMIT.                  *)
(***************************************************************************)
InitRecent == InitWith(SchemaApplied)

NextRecent == Request("c1", {"alice", "bob"}, {"pw1"}, {"s1"}, OneForm, MaxTxRecent)

SpecRecent == InitRecent /\ [][NextRecent]_vars

(***************************************************************************)
(* Properties.                                                             *)
(***************************************************************************)
Range(seq) == {seq[n] : n \in DOMAIN seq}

ProtectedOps == {"dashboard", "add", "report"}

\* Browser c has no session, or one whose user id resolves to no user row.
NoValidSession(c) == session[c] = NoUserId \/ \A u \in users : u.id # session[c]

\* C1: a request to a protected route (GET /, GET or POST /add, GET /report) made
\* with no session, or with a session whose user id resolves to no user, is
\* answered by a redirect to login with the log-in notice, the view is not run,
\* and the users and transactions tables are unchanged.
C1_GuardRedirects ==
    [][\A c \in Clients :
         (resp'.op \in ProtectedOps /\ resp'.client = c /\ NoValidSession(c)
            /\ EnvRequest(c))
         => /\ resp'.status = RedirectLogin
            /\ resp'.notice = MsgPleaseLogin
            /\ ~resp'.view
            /\ users' = users
            /\ transactions' = transactions]_vars

\* A POST /add by a browser whose session is bound to a deleted user, with a
\* ledger that is not empty, was redirected to login.
C1_Witness ==
    /\ resp.op = "add" /\ resp.method = "POST"
    /\ resp.status = RedirectLogin
    /\ session[resp.client] # NoUserId
    /\ UsersById(session[resp.client]) = {}
    /\ Len(transactions) > 0

\* The form's fields are all present and its amount is a number above zero.
ValidForm(f) ==
    /\ "" \notin {f.date, f.amount, f.type, f.category}
    /\ python_float(f.amount).ok
    /\ ~python_float(f.amount).nan
    /\ python_float(f.amount).val > 0

\* The last response is the dashboard, shown to a logged-in user.
DashboardShown == resp.op = "dashboard" /\ resp.view

\* A valid POST /add by a logged-in user succeeded and stored the form as the
\* newest row, under that user's id.
AddStored ==
    (resp.op = "add" /\ resp.method = "POST" /\ resp.user # NoUserId
        /\ ValidForm(resp.form))
    => /\ resp.status = RedirectDashboard
       /\ Len(transactions) > 0
       /\ LET t == transactions[Len(transactions)]
          IN  /\ t.user_id = resp.user
              /\ t.date = resp.form.date
              /\ t.amount = Cell(python_float(resp.form.amount).val)
              /\ t.type = resp.form.type
              /\ t.category = resp.form.category

\* A dashboard lists rows of its own user only, latest date first.
DashboardIsolated ==
    DashboardShown
    => /\ Range(resp.rows) \subseteq TxOf(resp.user)
       /\ \A a, b \in DOMAIN resp.rows :
            a < b => DateOrd(transactions[resp.rows[a]].date)
                       >= DateOrd(transactions[resp.rows[b]].date)

IsRegisterPost(c, username, password) ==
    /\ resp'.op = "register" /\ resp'.method = "POST" /\ resp'.client = c
    /\ resp'.form = AuthForm(username, password)

\* The response of this step is to a POST /login of browser c with this form.
IsLoginPost(c, username, password) ==
    /\ resp'.op = "login" /\ resp'.method = "POST" /\ resp'.client = c
    /\ resp'.form = AuthForm(username, password)

NoDuplicateUsernames ==
    \A u, v \in users : u.username = v.username => u = v

\* C4 as stated: no two user rows share a username, and a POST /register with a
\* username that already exists always fails with the already-registered error
\* and leaves the users table as it was.
C4_Original ==
    /\ []NoDuplicateUsernames
    /\ [][\A c \in Clients, u \in AuthUsernames, p \in AuthPasswords, s \in AuthSalts :
            (IsRegisterPost(c, u, p) /\ UsernameTaken(users, u)
               /\ RegisterPost(c, u, p, s))
            => /\ resp'.status = RenderRegister
               /\ resp'.notice = MsgAlreadyRegistered
               /\ users' = users]_vars

\* C4 amended: no two user rows share a username, and a POST /register with a
\* username that already exists always fails and leaves the users table as it
\* was: with the already-registered error when the password is not empty, with
\* the password-required error when it is.
C4_DuplicateRejected ==
    /\ []NoDuplicateUsernames
    /\ [][\A c \in Clients, u \in AuthUsernames, p \in AuthPasswords, s \in AuthSalts :
            (IsRegisterPost(c, u, p) /\ UsernameTaken(users, u)
               /\ RegisterPost(c, u, p, s))
            => /\ resp'.status = RenderRegister
               /\ resp'.notice = IF p = "" THEN MsgPasswordRequired
                                 ELSE MsgAlreadyRegistered
               /\ users' = users]_vars

\* A registration was refused as already registered while two users exist.
C4_Witness ==
    /\ resp.op = "register" /\ resp.method = "POST"
    /\ resp.notice = MsgAlreadyRegistered
    /\ Cardinality(users) = 2

\* C5: once a username has been registered with password p, a POST /login with
\* that username and p redirects to the dashboard and binds the browser's session
\* to that user's id, and a POST /login with that username and any other password
\* is refused with an error and leaves every session as it was.
C5_RegisteredPasswordLogsIn ==
    [][\A c \in Clients, u \in AuthUsernames, p \in AuthPasswords :
         (IsLoginPost(c, u, p) /\ u \in DOMAIN registered /\ LoginPost(c, u, p))
         => IF p = registered[u]
            THEN /\ resp'.status = RedirectDashboard
                 /\ \E r \in users : r.username = u /\ session'[c] = r.id
                 /\ \A b \in Clients \ {c} : session'[b] = session[b]
            ELSE /\ resp'.status = RenderLogin
                 /\ resp'.notice # ""
                 /\ session' = session]_vars

\* The second of two registered users has logged in with the password of its
\* registration, after the first.
C5_Witness ==
    /\ resp.op = "login" /\ resp.status = RedirectDashboard
    /\ resp.form.username \in DOMAIN registered
    /\ resp.form.password = registered[resp.form.username]
    /\ Cardinality(users) = 2
    /\ \A c \in Clients : session[c] # NoUserId
    /\ \E c, b \in Clients : session[c] # session[b]

\* C6: a failed POST /login looks the same whether the username does not exist
\* or the password is wrong: its notice is the one any other failing attempt
\* would get in the same store, and no session changes.
C6_FailedLoginsAlike ==
    [][\A c \in Clients, u1, u2 \in AuthUsernames, p1, p2 \in AuthPasswords :
         (IsLoginPost(c, u1, p1) /\ resp'.status = RenderLogin
            /\ LoginPost(c, u1, p1) /\ login_error(UsersByName(u2), p2) # "")
         => /\ resp'.notice = login_error(UsersByName(u2), p2)
            /\ session' = session]_vars

\* The user the gate resolves browser c's session to, NoUserId for Anonymous.
SessionState(c) == load_logged_in_user(c)

\* This step is a POST /login by browser c that succeeded as the user with id b.
LoggedInAs(c, b) ==
    \E u \in AuthUsernames, p \in AuthPasswords :
        /\ IsLoginPost(c, u, p)
        /\ resp'.status = RedirectDashboard
        /\ LoginPost(c, u, p)
        /\ \E r \in users : r.username = u /\ r.id = b

\* Every session is Anonymous or bound to the id of a user row.
SessionStates ==
    \A c \in Clients : session[c] = NoUserId \/ UsersById(session[c]) # {}

AnyEmpty(f) == "" \in {f.date, f.amount, f.type, f.category}

\* The amount is no number: float() rejects it, or reads it as NaN (not a number).
NonNumeric(a) == ~python_float(a).ok \/ python_float(a).nan

\* The amount is a number that is zero or below.
NonPositive(a) ==
    python_float(a).ok /\ ~python_float(a).nan /\ python_float(a).val <= 0

AddErrors == {MsgRequiredFields, MsgInvalidAmount, MsgNonPositive}

\* The response of this step is to a POST /add with form f by a logged-in browser.
IsAddPost(f) ==
    /\ resp'.op = "add" /\ resp'.method = "POST" /\ resp'.form = [NoForm EXCEPT
         !.date = f.date, !.amount = f.amount, !.type = f.type,
         !.category = f.category]
    /\ resp'.user # NoUserId

\* C3 as stated: a POST /add by a logged-in user whose amount is zero or below,
\* or no number, or in which one of date, amount, type, category is empty, is
\* answered by the form again with an error notice, and the transactions table
\* is unchanged.
C3_InvalidAddRejected ==
    [][\A f \in AddForms :
         (IsAddPost(f) /\ (AnyEmpty(f) \/ NonNumeric(f.amount) \/ NonPositive(f.amount))
            /\ AddPost("c1", f.date, f.amount, f.type, f.category, MaxTx))
         => /\ resp'.status = RenderAdd
            /\ resp'.notice \in AddErrors
            /\ transactions' = transactions]_vars

\* C3 without the amount "nan": the same for an amount that float() rejects, an
\* amount of zero or below, or an empty field.
C3_RejectedUnlessNaN ==
    [][\A f \in AddForms :
         (IsAddPost(f)
            /\ (AnyEmpty(f) \/ ~python_float(f.amount).ok \/ NonPositive(f.amount))
            /\ AddPost("c1", f.date, f.amount, f.type, f.category, MaxTx))
         => /\ resp'.status = RenderAdd
            /\ resp'.notice \in AddErrors
            /\ transactions' = transactions]_vars

\* C10 as stated: a POST /add by a logged-in user shows the required-fields
\* message whenever one of date, amount, type, category is empty, the
\* invalid-amount message whenever all are present and the amount is rejected by
\* float(), and the non-positive message whenever all are present and the amount
\* is a number of zero or below.
C10_MessagePerViolation ==
    (resp.op = "add" /\ resp.method = "POST" /\ resp.user # NoUserId)
    => /\ AnyEmpty(resp.form) => resp.notice = MsgRequiredFields
       /\ (~AnyEmpty(resp.form) /\ ~python_float(resp.form.amount).ok)
            => resp.notice = MsgInvalidAmount
       /\ (~AnyEmpty(resp.form) /\ NonPositive(resp.form.amount))
            => resp.notice = MsgNonPositive

\* The sum of the amounts of the first n rows that are uid's and of type ty.
RECURSIVE LedgerSum(_, _, _)
LedgerSum(n, uid, ty) ==
    IF n = 0 THEN 0
    ELSE LedgerSum(n - 1, uid, ty)
         + (IF /\ transactions[n].user_id = uid
               /\ transactions[n].type = ty
               /\ ~transactions[n].amount.null
            THEN transactions[n].amount.val ELSE 0)

\* C8: the dashboard of a logged-in user u is rendered with income the sum of the
\* amounts of u's rows of type 'Income', expense the sum of those of type
\* 'Expense' and balance = income - expense; rows of other users and of other
\* types add nothing; with no rows of u, or no transactions table, the totals
\* are (0, 0, 0).
C8_Totals ==
    (resp.op = "dashboard" /\ resp.user # NoUserId)
    => /\ resp.status = RenderIndex
       /\ resp.view
       /\ resp.totals.income = LedgerSum(Len(transactions), resp.user, "Income")
       /\ resp.totals.expense = LedgerSum(Len(transactions), resp.user, "Expense")
       /\ resp.totals.balance = resp.totals.income - resp.totals.expense
       /\ (TxOf(resp.user) = {} \/ ~schema.transactions) => resp.totals = NoTotals

\* A dashboard shows an income above zero while another user holds an Income row.
C8_Witness ==
    /\ DashboardShown
    /\ resp.totals.income > 0
    /\ \E i \in TxIds : /\ transactions[i].user_id # resp.user
                        /\ transactions[i].type = "Income"

\* A dashboard was rendered from a database without the transactions table.
C8_WitnessUninitialised ==
    DashboardShown /\ ~schema.transactions /\ resp.totals = NoTotals

\* The sum of one column of the first n rows of a monthly summary, NULL as 0.
RECURSIVE IncomeColumn(_, _)
IncomeColumn(M, n) ==
    IF n = 0 THEN 0 ELSE IncomeColumn(M, n - 1) + OrZero(M[n].income)

RECURSIVE ExpenseColumn(_, _)
ExpenseColumn(M, n) ==
    IF n = 0 THEN 0 ELSE ExpenseColumn(M, n - 1) + OrZero(M[n].expense)

\* C9: the monthly summary of /report for user u has one row for each month key
\* of u's transactions (the key of a date string that is no date is NULL), no
\* two rows share a key, the rows are in descending order of key (NULL last),
\* each of u's transactions falls in exactly one row, and the income and expense
\* columns add up to u's total income and total expense.
C9_MonthlyPartition ==
    (resp.op = "report" /\ resp.view)
    => LET M == resp.monthly
           mine == TxOf(resp.user)
       IN  /\ \A a, b \in DOMAIN M :
                a < b => MonthOrd(M[a].month) > MonthOrd(M[b].month)
           /\ {M[a].month : a \in DOMAIN M}
                = {strftime_month(transactions[i].date) : i \in mine}
           /\ \A i \in mine :
                Cardinality({a \in DOMAIN M :
                    M[a].month = strftime_month(transactions[i].date)}) = 1
           /\ IncomeColumn(M, Len(M)) = LedgerSum(Len(transactions), resp.user, "Income")
           /\ ExpenseColumn(M, Len(M)) = LedgerSum(Len(transactions), resp.user, "Expense")

\* A report shows a row of a month and, after it, the row of a transaction whose
\* date string is no date.
C9_Witness ==
    /\ resp.op = "report" /\ resp.view
    /\ Len(resp.monthly) = 2
    /\ ~resp.monthly[1].month.null
    /\ resp.monthly[2].month.null
    /\ OrZero(resp.monthly[2].income) > 0

\* A report shows one row for two transactions of the same month.
C9_WitnessSameMonth ==
    /\ resp.op = "report" /\ resp.view
    /\ Len(resp.monthly) = 1
    /\ Cardinality(TxOf(resp.user)) = 2
    /\ OrZero(resp.monthly[1].income) > 0
    /\ OrZero(resp.monthly[1].expense) > 0

====
